---------------------------- MODULE Spec2Model ----------------------------
(***************************************************************************)
(* Model of the two pi extensions of this repository:                      *)
(*   .pi/extensions/security.ts    - the tool_call guard that vetoes sudo  *)
(*   .pi/extensions/hello-world.ts - the hello-world slash command         *)
(* together with the part of the host (the pi agent) that the extension    *)
(* documentation describes: loading extensions, emitting tool_call before  *)
(* a tool executes, awaiting the handler, and acting on its decision.      *)
(*                                                                         *)
(* Strings are sequences of one-character strings.                        *)
(***************************************************************************)
EXTENDS Naturals, Sequences, FiniteSets, TLC

VARIABLES
    pc,             \* position of the host in the tool-call lifecycle
    loaded,         \* extensions whose default export has run
    handlers,       \* pi.on subscriptions: sequence of <<event name, handler>>
    commands,       \* pi.registerCommand registrations
    event,          \* the tool_call event being dispatched
    ctx,            \* the context object handed to the tool_call handler
    result,         \* what the awaited tool_call handler returned
    inspected,      \* did the handler read event.input.command
    uiCalls,        \* calls made on ctx.ui, in order
    invocations,    \* number of /hello-world invocations made by the user
    memo,           \* a remembered <<command, decision>> of an earlier event
    cmdPc,          \* is the hello-world handler being awaited
    cmdArgs,        \* the argument string of the latest hello-world invocation
    cmdResult       \* what the latest hello-world handler returned

\* the state of the latest command invocation
cmdVars == <<cmdPc, cmdArgs, cmdResult>>

vars == <<pc, loaded, handlers, commands, event, ctx, result, inspected,
          uiCalls, invocations, memo, cmdVars>>

---------------------------------------------------------------------------
(* Bounds *)

MaxLen == 5             \* longest generated command string
MaxInvocations == 2     \* hello-world invocations in one run

---------------------------------------------------------------------------
(* Strings *)

Alphabet == {"s", "u", "d", "o"}

RECURSIVE StringsOfLen(_)
StringsOfLen(n) ==
    IF n = 0 THEN {<<>>}
    ELSE {Append(s, c) : s \in StringsOfLen(n - 1), c \in Alphabet}

GeneratedStrings == UNION {StringsOfLen(n) : n \in 0..MaxLen}

\* the literal of security.ts:18
SUDO == <<"s", "u", "d", "o">>

\* the literal of security.ts:8
REASON ==
    <<"d","a","n","g","e","r","o","u","s"," ","c","o","m","m","a","n","d",
      ","," ","s","u","d","o"," ","i","s"," ","n","o","t"," ","a","l","l",
      "o","w","e","d"," ","f","o","r"," ","a","g","e","n","t">>

\* the literals of hello-world.ts
HELLO_WORLD == <<"h","e","l","l","o"," ","w","o","r","l","d">>
COMMAND_NAME == "hello-world"
COMMAND_DESCRIPTION == "Prints 'hello' to the terminal"

\* commands written out in full: the examples of the documentation and
\* strings with separators and other casings
ExampleCommands ==
    { <<"s","u","d","o"," ","r","m"," ","-","r","f"," ","/">>,
      <<"l","s"," ","-","l","a">>,
      <<"e","c","h","o"," ","s","u","d","o","k","u">>,
      <<"s","u","d","o","k","u">>,
      <<"l","s"," ","&","&"," ","s","u","d","o"," ","l","s">>,
      <<"l","s",";","s","u","d","o">>,
      <<"S","U","D","O"," ","l","s">>,
      <<"S","u","d","o"," ","l","s">>,
      <<"s","u"," ","d","o">>,
      <<" ","s","u","d","o">>,
      <<"s","u","d","o"," ">>,
      <<"l","s","|","s","u","d","o","|","l","s">>,
      <<"s","u","d","o"," ","s","u","d","o","k","u">>,
      <<"r","m"," ","-","r","f"," ","/">> }

\* the word sudo in each of its sixteen casings
CasedSudo ==
    {<<a, b, c, d>> : a \in {"s", "S"}, b \in {"u", "U"},
                      c \in {"d", "D"}, d \in {"o", "O"}}

Commands == GeneratedStrings \cup ExampleCommands \cup CasedSudo

\* String.prototype.includes: some position of s starts a copy of p
includes(s, p) ==
    \E i \in 0..Len(s) :
        /\ i + Len(p) <= Len(s)
        /\ SubSeq(s, i + 1, i + Len(p)) = p

---------------------------------------------------------------------------
(* Events, contexts and handler results *)

ToolNames == {"bash", "read", "write"}
ToolCallIds == {1, 2}

\* inputs of tools that are not bash: some carry "sudo" in a field, one of
\* them in a field called command, some have no command field
OtherPaths == { <<"s","u","d","o","e","r","s">>, <<"a",".","t","s">> }

BashInputs ==
    {[command |-> c] : c \in Commands} \cup {[path |-> p] : p \in OtherPaths}

OtherInputs ==
    {[path |-> p] : p \in OtherPaths}
        \cup {[command |-> c] : c \in {SUDO, <<"l","s">>}}

BashEvents ==
    {[toolName |-> "bash", toolCallId |-> id, input |-> i] :
        id \in ToolCallIds, i \in BashInputs}

OtherEvents ==
    {[toolName |-> n, toolCallId |-> 1, input |-> i] :
        n \in ToolNames \ {"bash"}, i \in OtherInputs}

Events == BashEvents \cup OtherEvents

NoEvent == [toolName |-> "none", toolCallId |-> 0, input |-> [path |-> <<>>]]

Contexts == {[hasUI |-> h] : h \in BOOLEAN}
NoCtx == [hasUI |-> FALSE]

\* a handler that returns without a value
Undefined == [kind |-> "undefined"]
\* reading .includes of an absent command field throws
TypeError == [kind |-> "TypeError"]
\* no handler has been awaited for the current event
Pending == [kind |-> "pending"]

HasCommand(ev) == "command" \in DOMAIN ev.input

---------------------------------------------------------------------------
(* ctx.ui *)

Levels == {"info", "success", "warning", "error"}

notify(message, level) ==
    [method |-> "notify", message |-> message, level |-> level]

\* a dialog: its promise settles when the user answers
confirm(title, message) ==
    [method |-> "confirm", title |-> title, message |-> message]

Dialogs == {"confirm", "select", "input", "editor"}

---------------------------------------------------------------------------
(* security.ts *)

\* isToolCallEventType of the pi API: compares the tool-type discriminator
isToolCallEventType(type, ev) == ev.toolName = type

isBash(ev) == isToolCallEventType("bash", ev)

\* variants of containsSudo with a plausible slip each
containsSudoAtStart(ev) ==
    /\ Len(ev.input.command) >= Len(SUDO)
    /\ SubSeq(ev.input.command, 1, Len(SUDO)) = SUDO

containsSu(ev) == includes(ev.input.command, <<"s", "u">>)

containsSudoToken(ev) ==
    LET cmd == ev.input.command
    IN \E i \in 1..Len(cmd) :
          /\ i + 3 <= Len(cmd)
          /\ SubSeq(cmd, i, i + 3) = SUDO
          /\ i = 1 \/ cmd[i - 1] = " "
          /\ i + 3 = Len(cmd) \/ cmd[i + 4] = " "

containsSudoIgnoreCase(ev) ==
    LET cmd == ev.input.command
        low == [i \in 1..Len(cmd) |->
                    CASE cmd[i] = "S" -> "s" [] cmd[i] = "U" -> "u"
                      [] cmd[i] = "D" -> "d" [] cmd[i] = "O" -> "o"
                      [] OTHER -> cmd[i]]
    IN includes(low, SUDO)

containsSudo(ev) == includes(ev.input.command, SUDO)

block(reason) == [kind |-> "object", block |-> TRUE, reason |-> reason]

\* variants of the callback with a plausible slip each
toolCallHandlerNoTypeCheck(ev, c) ==
    IF ~HasCommand(ev)
    THEN [ret |-> TypeError, read |-> TRUE, ui |-> <<>>, ev |-> ev]
    ELSE IF containsSudo(ev)
    THEN [ret |-> block(REASON), read |-> TRUE, ui |-> <<>>, ev |-> ev]
    ELSE [ret |-> Undefined, read |-> TRUE, ui |-> <<>>, ev |-> ev]

toolCallHandlerEchoesCommand(ev, c) ==
    IF ~isBash(ev)
    THEN [ret |-> Undefined, read |-> FALSE, ui |-> <<>>, ev |-> ev]
    ELSE IF ~HasCommand(ev)
    THEN [ret |-> TypeError, read |-> TRUE, ui |-> <<>>, ev |-> ev]
    ELSE IF containsSudo(ev)
    THEN [ret |-> block(REASON \o <<":", " ">> \o ev.input.command),
          read |-> TRUE, ui |-> <<>>, ev |-> ev]
    ELSE [ret |-> Undefined, read |-> TRUE, ui |-> <<>>, ev |-> ev]

toolCallHandlerNeedsUI(ev, c) ==
    IF ~isBash(ev)
    THEN [ret |-> Undefined, read |-> FALSE, ui |-> <<>>, ev |-> ev]
    ELSE IF ~HasCommand(ev)
    THEN [ret |-> TypeError, read |-> TRUE, ui |-> <<>>, ev |-> ev]
    ELSE IF containsSudo(ev) /\ c.hasUI
    THEN [ret |-> block(REASON), read |-> TRUE, ui |-> <<>>, ev |-> ev]
    ELSE [ret |-> Undefined, read |-> TRUE, ui |-> <<>>, ev |-> ev]

toolCallHandlerNoReturn(ev, c) ==
    IF ~isBash(ev)
    THEN [ret |-> Undefined, read |-> FALSE, ui |-> <<>>, ev |-> ev]
    ELSE IF ~HasCommand(ev)
    THEN [ret |-> TypeError, read |-> TRUE, ui |-> <<>>, ev |-> ev]
    ELSE [ret |-> Undefined, read |-> TRUE, ui |-> <<>>, ev |-> ev]

toolCallHandlerAfterGreeting(ev, c) ==
    IF ~isBash(ev)
    THEN [ret |-> Undefined, read |-> FALSE, ui |-> <<>>, ev |-> ev]
    ELSE IF ~HasCommand(ev)
    THEN [ret |-> TypeError, read |-> TRUE, ui |-> <<>>, ev |-> ev]
    ELSE IF containsSudo(ev) /\ invocations = 0
    THEN [ret |-> block(REASON), read |-> TRUE, ui |-> <<>>, ev |-> ev]
    ELSE [ret |-> Undefined, read |-> TRUE, ui |-> <<>>, ev |-> ev]

toolCallHandlerNotifies(ev, c) ==
    IF ~isBash(ev)
    THEN [ret |-> Undefined, read |-> FALSE, ui |-> <<>>, ev |-> ev]
    ELSE IF ~HasCommand(ev)
    THEN [ret |-> TypeError, read |-> TRUE, ui |-> <<>>, ev |-> ev]
    ELSE IF containsSudo(ev)
    THEN [ret |-> block(REASON), read |-> TRUE,
          ui |-> <<notify(REASON, "warning")>>, ev |-> ev]
    ELSE [ret |-> Undefined, read |-> TRUE, ui |-> <<>>, ev |-> ev]

toolCallHandlerConfirms(ev, c) ==
    IF ~isBash(ev)
    THEN [ret |-> Undefined, read |-> FALSE, ui |-> <<>>, ev |-> ev]
    ELSE IF ~HasCommand(ev)
    THEN [ret |-> TypeError, read |-> TRUE, ui |-> <<>>, ev |-> ev]
    ELSE IF containsSudo(ev)
    THEN [ret |-> block(REASON), read |-> TRUE,
          ui |-> <<confirm(<<"D","a","n","g","e","r","o","u","s","!">>,
                           REASON)>>, ev |-> ev]
    ELSE [ret |-> Undefined, read |-> TRUE, ui |-> <<>>, ev |-> ev]

\* The async callback given to pi.on("tool_call", ...).  ret is the value
\* the promise settles with, read tells whether event.input.command was
\* read, ui lists the calls made on ctx.ui, ev is the event as the handler
\* leaves it.
toolCallHandler(ev, c) ==
    IF ~isBash(ev)
    THEN [ret |-> Undefined, read |-> FALSE, ui |-> <<>>, ev |-> ev]
    ELSE IF ~HasCommand(ev)
    THEN [ret |-> TypeError, read |-> TRUE, ui |-> <<>>, ev |-> ev]
    ELSE IF containsSudo(ev)
    THEN [ret |-> block(REASON), read |-> TRUE, ui |-> <<>>, ev |-> ev]
    ELSE [ret |-> Undefined, read |-> TRUE, ui |-> <<>>, ev |-> ev]

---------------------------------------------------------------------------
(* hello-world.ts *)

CommandArgs == {<<>>, <<"s","u","d","o">>}

\* variant of the handler that notifies twice
helloWorldHandlerTwice(args, c) ==
    [ret |-> Undefined,
     ui |-> <<notify(HELLO_WORLD, "info"), notify(HELLO_WORLD, "info")>>]

\* variant of the handler that shows its argument string when it has one
helloWorldHandlerEchoesArgs(args, c) ==
    [ret |-> Undefined,
     ui |-> <<notify(IF args = <<>> THEN HELLO_WORLD ELSE args, "info")>>]

\* The async handler of the hello-world command.
helloWorldHandler(args, c) ==
    [ret |-> Undefined, ui |-> <<notify(HELLO_WORLD, "info")>>]

---------------------------------------------------------------------------
(* The host *)

Extensions == {"security", "hello-world"}

\* commands whose first decision (taken with a UI, as call 1, before any
\* hello-world invocation) is remembered for later comparison
Probes == { SUDO, <<"l","s"," ","-","l","a">> }

NoMemo == [command |-> <<"-">>, ret |-> Pending]

\* no command has been invoked yet
NoArgs == <<"-">>

Init ==
    /\ pc = "loading"
    /\ loaded = {}
    /\ handlers = <<>>
    /\ commands = {}
    /\ event = NoEvent
    /\ ctx = NoCtx
    /\ result = Pending
    /\ inspected = FALSE
    /\ uiCalls = <<>>
    /\ invocations = 0
    /\ memo = NoMemo
    /\ cmdPc = "idle"
    /\ cmdArgs = NoArgs
    /\ cmdResult = Pending

\* variant of the export that also subscribes to tool_result
LoadSecurityAlsoToolResult ==
    /\ pc = "loading"
    /\ "security" \notin loaded
    /\ loaded' = loaded \cup {"security"}
    /\ handlers' = handlers \o
            << <<"tool_call", "guard">>, <<"tool_result", "guard">> >>
    /\ UNCHANGED <<pc, commands, event, ctx, result, inspected, uiCalls,
                   invocations, memo, cmdVars>>

\* the default export of security.ts runs: one subscription
LoadSecurity ==
    /\ pc = "loading"
    /\ "security" \notin loaded
    /\ loaded' = loaded \cup {"security"}
    /\ handlers' = Append(handlers, <<"tool_call", "guard">>)
    /\ UNCHANGED <<pc, commands, event, ctx, result, inspected, uiCalls,
                   invocations, memo,
                   cmdVars>>

\* the default export of hello-world.ts runs: one command registration
LoadHelloWorld ==
    /\ pc = "loading"
    /\ "hello-world" \notin loaded
    /\ loaded' = loaded \cup {"hello-world"}
    /\ commands' = commands \cup
            {[name |-> COMMAND_NAME, description |-> COMMAND_DESCRIPTION,
              handler |-> "helloWorld"]}
    /\ UNCHANGED <<pc, handlers, event, ctx, result, inspected, uiCalls,
                   invocations, memo,
                   cmdVars>>

\* every extension of .pi/extensions is loaded before the session starts
SessionStart ==
    /\ pc = "loading"
    /\ loaded = Extensions
    /\ pc' = "idle"
    /\ UNCHANGED <<loaded, handlers, commands, event, ctx, result,
                   inspected, uiCalls, invocations, memo,
                   cmdVars>>

\* the LLM calls a tool: the host emits tool_call before the tool executes
EmitToolCall ==
    /\ pc = "idle"
    /\ \E ev \in Events, c \in Contexts :
          /\ event' = ev
          /\ ctx' = c
    /\ pc' = "tool_call"
    /\ result' = Pending
    /\ inspected' = FALSE
    /\ UNCHANGED <<loaded, handlers, commands, uiCalls, invocations, memo,
                   cmdVars>>

Subscribed(name, h) ==
    \E i \in 1..Len(handlers) : handlers[i] = <<name, h>>

\* the host invokes the subscribed tool_call handler and awaits it
RunToolCallHandler ==
    /\ pc = "tool_call"
    /\ LET out == IF Subscribed("tool_call", "guard")
                  THEN toolCallHandler(event, ctx)
                  ELSE [ret |-> Undefined, read |-> FALSE, ui |-> <<>>,
                        ev |-> event]
       IN /\ result' = out.ret
          /\ event' = out.ev
          /\ inspected' = out.read
          /\ uiCalls' = uiCalls \o out.ui
          /\ memo' \in
                IF /\ memo = NoMemo
                   /\ invocations = 0
                   /\ ctx.hasUI
                   /\ event.toolCallId = 1
                   /\ isBash(event)
                   /\ HasCommand(event)
                   /\ event.input.command \in Probes
                THEN {memo, [command |-> event.input.command, ret |-> out.ret]}
                ELSE {memo}
          \* a handler that opened a dialog settles only on the user's answer
          /\ pc' = IF \E i \in 1..Len(out.ui) : out.ui[i].method \in Dialogs
                   THEN "awaiting_user"
                   ELSE "decided"
    /\ UNCHANGED <<loaded, handlers, commands, ctx, invocations, cmdVars>>

\* the host proceeds on the returned decision
HostProceed ==
    /\ pc = "decided"
    /\ pc' = IF result.kind = "TypeError" THEN "errored"
             ELSE IF /\ result.kind = "object"
                     /\ "block" \in DOMAIN result
                     /\ result.block = TRUE
                  THEN "blocked"
                  ELSE "executing"
    /\ UNCHANGED <<loaded, handlers, commands, event, ctx, result,
                   inspected, uiCalls, invocations, memo,
                   cmdVars>>

\* the tool call is over (tool_result, or the block or error is reported)
ToolCallEnd ==
    /\ pc \in {"executing", "blocked", "errored"}
    /\ pc' = "idle"
    /\ event' = NoEvent
    /\ ctx' = NoCtx
    /\ result' = Pending
    /\ inspected' = FALSE
    /\ UNCHANGED <<loaded, handlers, commands, uiCalls, invocations, memo,
                   cmdVars>>

\* the user types /hello-world: the host invokes the registered handler
InvokeHelloWorld ==
    /\ pc # "loading"
    /\ cmdPc = "idle"
    /\ invocations < MaxInvocations
    /\ \E cmd \in commands : cmd.name = COMMAND_NAME
    /\ invocations' = invocations + 1
    /\ \E args \in CommandArgs, c \in Contexts :
          LET out == helloWorldHandler(args, c)
          IN /\ uiCalls' = uiCalls \o out.ui
             /\ cmdArgs' = args
             /\ cmdResult' = out.ret
    /\ UNCHANGED <<pc, loaded, handlers, commands, event, ctx, result,
                   inspected, memo, cmdPc>>

Next ==
    \/ LoadSecurity
    \/ LoadHelloWorld
    \/ SessionStart
    \/ EmitToolCall
    \/ RunToolCallHandler
    \/ HostProceed
    \/ ToolCallEnd
    \/ InvokeHelloWorld

Spec == Init /\ [][Next]_vars

---------------------------------------------------------------------------
(* The host with its scheduling: a handler the host has called runs to its
   end, and the host resumes when the promise it awaits has settled.  The
   command invocation is split into the call and the run of the handler;
   tool calls carry the commands written out in full. *)

ExampleEvents ==
    {ev \in Events :
        (isBash(ev) /\ HasCommand(ev))
            => ev.input.command \in ExampleCommands \cup CasedSudo}

EmitExampleToolCall ==
    /\ pc = "idle"
    /\ \E ev \in ExampleEvents, c \in Contexts :
          /\ event' = ev
          /\ ctx' = c
    /\ pc' = "tool_call"
    /\ result' = Pending
    /\ inspected' = FALSE
    /\ UNCHANGED <<loaded, handlers, commands, uiCalls, invocations, memo,
                   cmdVars>>

\* the user types /hello-world: the host calls the registered handler
CallHelloWorld ==
    /\ pc # "loading"
    /\ cmdPc = "idle"
    /\ invocations < MaxInvocations
    /\ \E cmd \in commands : cmd.name = COMMAND_NAME
    /\ cmdPc' = "running"
    /\ \E args \in CommandArgs : cmdArgs' = args
    /\ cmdResult' = Pending
    /\ UNCHANGED <<pc, loaded, handlers, commands, event, ctx, result,
                   inspected, uiCalls, invocations, memo>>

\* the hello-world handler runs to its end
RunHelloWorldHandler ==
    /\ cmdPc = "running"
    /\ \E c \in Contexts :
          LET out == helloWorldHandler(cmdArgs, c)
          IN /\ uiCalls' = uiCalls \o out.ui
             /\ cmdResult' = out.ret
             /\ cmdPc' = IF \E i \in 1..Len(out.ui) :
                                out.ui[i].method \in Dialogs
                         THEN "awaiting_user"
                         ELSE "idle"
    /\ invocations' = invocations + 1
    /\ UNCHANGED <<pc, loaded, handlers, commands, event, ctx, result,
                   inspected, memo, cmdArgs>>

FairNext ==
    \/ LoadSecurity
    \/ LoadHelloWorld
    \/ SessionStart
    \/ EmitExampleToolCall
    \/ RunToolCallHandler
    \/ HostProceed
    \/ ToolCallEnd
    \/ CallHelloWorld
    \/ RunHelloWorldHandler

FairSpec ==
    /\ Init
    /\ [][FairNext]_vars
    /\ WF_vars(RunToolCallHandler)
    /\ WF_vars(HostProceed)
    /\ WF_vars(RunHelloWorldHandler)

---------------------------------------------------------------------------
(* Vocabulary of the properties *)

\* the awaited handler has settled for the current event
Handled == pc \in {"decided", "executing", "blocked", "errored"}

BashWithCommand == isBash(event) /\ HasCommand(event)

\* the four letters s, u, d, o stand at positions i .. i+3 of cmd
SudoAt(cmd, i) ==
    /\ i >= 1
    /\ i + 3 <= Len(cmd)
    /\ cmd[i] = "s"
    /\ cmd[i + 1] = "u"
    /\ cmd[i + 2] = "d"
    /\ cmd[i + 3] = "o"

SudoOccurs(cmd) == \E i \in 1..Len(cmd) : SudoAt(cmd, i)

IsBlock(r) ==
    /\ r.kind = "object"
    /\ DOMAIN r = {"kind", "block", "reason"}
    /\ r.block = TRUE

\* the reason as the documentation of the guard states it
FixedReason ==
    <<"d","a","n","g","e","r","o","u","s"," ">> \o
    <<"c","o","m","m","a","n","d",","," ">> \o
    <<"s","u","d","o"," ">> \o <<"i","s"," ">> \o <<"n","o","t"," ">> \o
    <<"a","l","l","o","w","e","d"," ">> \o <<"f","o","r"," ">> \o
    <<"a","g","e","n","t">>

Separators == {" ", ";", "&", "|"}

\* the occurrence of sudo at i is glued to a neighbouring character, so
\* the token it belongs to is longer than sudo
InsideLongerToken(cmd, i) ==
    \/ i > 1 /\ cmd[i - 1] \notin Separators
    \/ i + 4 <= Len(cmd) /\ cmd[i + 4] \notin Separators

SudoOnlyInLongerTokens(cmd) ==
    /\ SudoOccurs(cmd)
    /\ \A i \in 1..Len(cmd) : SudoAt(cmd, i) => InsideLongerToken(cmd, i)

Lower(ch) ==
    CASE ch = "S" -> "s"
      [] ch = "U" -> "u"
      [] ch = "D" -> "d"
      [] ch = "O" -> "o"
      [] OTHER -> ch

ToLowerCase(cmd) == [i \in 1..Len(cmd) |-> Lower(cmd[i])]

---------------------------------------------------------------------------
(* Properties of the guard *)

\* C1: a bash tool_call whose command contains "sudo" at any position is
\* answered with a block decision: block = TRUE and a non-empty reason.
SudoIsBlocked ==
    (Handled /\ BashWithCommand /\ SudoOccurs(event.input.command))
        => (IsBlock(result) /\ Len(result.reason) > 0)

\* C1 witness: sudo in the middle of the command, and the call is blocked
SudoInMiddleBlocked ==
    /\ Handled
    /\ BashWithCommand
    /\ \E i \in 2..Len(event.input.command) :
          /\ SudoAt(event.input.command, i)
          /\ i + 3 < Len(event.input.command)
    /\ IsBlock(result)

\* C2: a bash tool_call whose command does not contain "sudo" (the empty
\* command included) gets no decision: the handler returns no value.
NoSudoIsAllowed ==
    (Handled /\ BashWithCommand /\ ~SudoOccurs(event.input.command))
        => result = Undefined

\* C2 witness: the empty command was handled and nothing was returned
EmptyCommandAllowed ==
    /\ Handled
    /\ BashWithCommand
    /\ event.input.command = <<>>
    /\ result = Undefined

\* C3: for a tool_call that is not of the bash type the handler returns no
\* value, raises no error and never reads the command field, whatever the
\* input carries.
NonBashNotInspected ==
    (Handled /\ ~isBash(event))
        => (result = Undefined /\ inspected = FALSE)

\* C3 witness: a read call without command field whose path contains sudo
NonBashWithSudoPathHandled ==
    /\ Handled
    /\ event.toolName = "read"
    /\ ~HasCommand(event)
    /\ SudoOccurs(event.input.path)
    /\ result = Undefined

\* C5: whenever the guard blocks, the reason is the one fixed string,
\* whatever the command.
BlockReasonIsFixed ==
    (Handled /\ result.kind = "object") => result.reason = FixedReason

\* C5 witness: a command longer than the bare word sudo is blocked
LongCommandBlocked ==
    /\ Handled
    /\ BashWithCommand
    /\ Len(event.input.command) > 4
    /\ IsBlock(result)

\* C6: a bash command in which sudo occurs only inside a longer token is
\* blocked, with the very decision a command that invokes sudo got.
LongerTokenIsBlocked ==
    (Handled /\ BashWithCommand
        /\ SudoOnlyInLongerTokens(event.input.command))
        => /\ IsBlock(result)
           /\ memo.command = SUDO => result = memo.ret

\* C6 witness: "echo sudoku" is blocked after "sudo" was
SudokuBlocked ==
    /\ Handled
    /\ BashWithCommand
    /\ event.input.command = <<"e","c","h","o"," ","s","u","d","o","k","u">>
    /\ memo.command = SUDO
    /\ IsBlock(result)

\* C7: a bash command that spells sudo only in another casing, and has no
\* lower-case sudo, gets no decision.
OtherCasingIsAllowed ==
    (Handled /\ BashWithCommand
        /\ ~SudoOccurs(event.input.command)
        /\ SudoOccurs(ToLowerCase(event.input.command)))
        => result = Undefined

\* C7 witness: "SUDO ls" was handled and nothing was returned
UpperCaseSudoAllowed ==
    /\ Handled
    /\ BashWithCommand
    /\ event.input.command = <<"S","U","D","O"," ","l","s">>
    /\ result = Undefined

\* C8: a bash tool_call gets the decision that the earlier tool_call with
\* the same command string got, whatever the context, the other fields of
\* the event and the events and invocations in between.
SameCommandSameDecision ==
    (Handled /\ BashWithCommand /\ memo.command = event.input.command)
        => result = memo.ret

\* C8 witness: the remembered command is decided again, without a UI, as
\* another call and after hello-world invocations
SameCommandDecidedAgain ==
    /\ Handled
    /\ BashWithCommand
    /\ memo.command = event.input.command
    /\ ~ctx.hasUI
    /\ event.toolCallId = 2
    /\ invocations > 0
    /\ IsBlock(result)

\* C9: whatever the event, the handler ends with one of two shapes: no
\* value, or an object with block = TRUE and a reason string.
ResultHasContractShape ==
    Handled => (result = Undefined \/ (IsBlock(result) /\ Len(result.reason) >= 0))

\* C10: the host never executes a bash command that contains sudo, and it
\* executes every bash command without sudo and every call of another tool.
HostHonoursGuard ==
    (pc \in {"executing", "blocked", "errored"})
        => /\ (BashWithCommand /\ SudoOccurs(event.input.command))
                => pc = "blocked"
           /\ (BashWithCommand /\ ~SudoOccurs(event.input.command))
                => pc = "executing"
           /\ ~isBash(event) => pc = "executing"

\* C10 witness: "ls -la" executes in a session in which "sudo" was blocked
AllowedCommandExecutes ==
    /\ pc = "executing"
    /\ BashWithCommand
    /\ event.input.command = <<"l","s"," ","-","l","a">>
    /\ memo.command = SUDO
    /\ IsBlock(memo.ret)

---------------------------------------------------------------------------
(* Properties of the hello-world command *)

\* C4: after n invocations of hello-world exactly n calls were made on the
\* UI, each a notify of "hello world" with level info.
OneNotificationPerInvocation ==
    /\ Len(uiCalls) = invocations
    /\ \A i \in 1..Len(uiCalls) :
          /\ uiCalls[i].method = "notify"
          /\ uiCalls[i].level = "info"
          /\ uiCalls[i].level \in Levels
          /\ uiCalls[i].message = <<"h","e","l","l","o"," ">> \o
                                   <<"w","o","r","l","d">>

\* C4 witness: two invocations, two notifications
TwoInvocationsNotified ==
    /\ invocations = 2
    /\ Len(uiCalls) = 2

\* C11: every invocation of hello-world, whatever its argument string,
\* returns no value, adds the one notification "hello world" / info and
\* changes nothing else.
HelloWorldIgnoresInput ==
    [][invocations' = invocations + 1
        => /\ cmdResult' = Undefined
           /\ uiCalls' = Append(uiCalls,
                    notify(<<"h","e","l","l","o"," ","w","o","r","l","d">>,
                           "info"))
           /\ UNCHANGED <<pc, loaded, handlers, commands, event, ctx,
                          result, inspected, memo>>]_vars

\* C11 witness: an invocation with a non-empty argument string has
\* returned, and the two notifications made so far are the same
InvokedWithArguments ==
    /\ cmdArgs = <<"s","u","d","o">>
    /\ cmdResult = Undefined
    /\ invocations = 2
    /\ Len(uiCalls) = 2
    /\ uiCalls[1] = uiCalls[2]

\* C12: the step in which the guard handles a tool_call changes nothing
\* but the decision: no call on ctx.ui, the event and its command as they
\* were, the context, the registrations and the command state untouched.
GuardHasNoSideEffect ==
    [][(pc = "tool_call" /\ pc' = "decided")
        => /\ uiCalls' = uiCalls
           /\ event' = event
           /\ ctx' = ctx
           /\ UNCHANGED <<loaded, handlers, commands, invocations,
                          cmdVars>>]_vars

\* C12 witness: the guard has blocked a call, and the only UI call so far
\* is the notification of an earlier hello-world invocation
BlockedWithoutUICall ==
    /\ pc = "decided"
    /\ IsBlock(result)
    /\ event.input.command =
            <<"s","u","d","o"," ","r","m"," ","-","r","f"," ","/">>
    /\ invocations = 1
    /\ Len(uiCalls) = 1
    /\ uiCalls[1].method = "notify"

---------------------------------------------------------------------------
(* Properties of the two extensions together *)

\* C13: a hello-world invocation leaves the tool call in progress and its
\* decision alone; a guard step leaves the notifications and the command
\* state alone and decides as it decided the same command before any
\* hello-world invocation; the notifications number the invocations.
ComponentsAreIndependent ==
    [][/\ invocations' # invocations
            => UNCHANGED <<pc, event, ctx, result, inspected, memo>>
       /\ (pc = "tool_call" /\ pc' # "tool_call")
            => /\ UNCHANGED <<uiCalls, invocations, cmdVars>>
               /\ (/\ isBash(event)
                   /\ HasCommand(event)
                   /\ memo'.command = event.input.command)
                     => result' = memo'.ret
       /\ Len(uiCalls') = invocations']_vars

\* C13 witness: after two hello-world invocations the guard has blocked the
\* command it blocked before any of them
BlockedAfterGreetings ==
    /\ pc = "blocked"
    /\ invocations = 2
    /\ Len(uiCalls) = 2
    /\ BashWithCommand
    /\ memo.command = event.input.command
    /\ result = memo.ret

\* the event has the fields its tool type promises
WellFormed(ev) == isBash(ev) => HasCommand(ev)

\* C14: a tool_call with a well-formed event is always followed by the
\* host proceeding (the tool executes or the call is blocked), and a called
\* hello-world handler always returns; neither waits for anything.
HandlersComplete ==
    /\ (pc = "tool_call" /\ WellFormed(event))
            ~> (pc \in {"executing", "blocked"})
    /\ (cmdPc = "running") ~> (cmdPc = "idle" /\ cmdResult = Undefined)

\* C14 witness: the host has proceeded to block a call after the guard ran,
\* and a hello-world invocation made meanwhile has returned
BothHandlersCompleted ==
    /\ pc = "blocked"
    /\ IsBlock(result)
    /\ cmdPc = "idle"
    /\ cmdResult = Undefined
    /\ invocations = 1

---------------------------------------------------------------------------
(* Properties of loading *)

\* C15: loading registers and does nothing else.  Once hello-world.ts is
\* loaded there is exactly one command, named hello-world, with a
\* description and a handler, and none before; once security.ts is loaded
\* there is exactly one subscription, to tool_call, and none before; while
\* loading no notification is made, no decision returned and no handler run.
LoadingOnlyRegisters ==
    /\ IF "hello-world" \in loaded
       THEN /\ Cardinality(commands) = 1
            /\ \A cmd \in commands :
                  /\ cmd.name = "hello-world"
                  /\ DOMAIN cmd = {"name", "description", "handler"}
                  /\ cmd.description # ""
                  /\ cmd.handler = "helloWorld"
       ELSE commands = {}
    /\ IF "security" \in loaded
       THEN /\ Len(handlers) = 1
            /\ handlers[1][1] = "tool_call"
       ELSE handlers = <<>>
    /\ pc = "loading"
            => /\ uiCalls = <<>>
               /\ result = Pending
               /\ invocations = 0
               /\ cmdResult = Pending

\* C15 witness: both extensions are loaded and the session has not started
BothExtensionsLoaded ==
    /\ pc = "loading"
    /\ loaded = {"security", "hello-world"}
    /\ Cardinality(commands) = 1
    /\ Len(handlers) = 1

\* C16: the guard never ends with an error, whatever tool_call event the
\* host delivers.
GuardNeverFails ==
    /\ pc # "errored"
    /\ result.kind # "TypeError"

====
